---- MODULE Spec2Model ----
(***************************************************************************)
(* State-machine model of the WebSocket session manager of okx-client      *)
(* (src/src/ws): WebsocketClient, its connection store, the registry of    *)
(* pending WS API requests, the per-transport I/O, heartbeat and           *)
(* processing tasks and the reconnect task.                                *)
(*                                                                         *)
(* Every await on a lock (tokio RwLock / Mutex) is a scheduling point: one *)
(* action is the code between two such points.  A lock that is held across *)
(* an await is visible in the program counter of its holder.               *)
(***************************************************************************)
EXTENDS Integers, Sequences, FiniteSets, TLC

\* ------------------------------------------------------------------ bounds
NumCallers == 2         \* tasks of the application that call the client concurrently
MaxTransports == 2      \* sockets opened in one behaviour
MaxInbox == 2           \* parsed messages waiting in one msg_rx queue
MaxSubscribes == 2      \* subscribe calls in one behaviour
MaxUnsubscribes == 1    \* unsubscribe calls in one behaviour
MaxCommands == 2        \* send_api_request calls in one behaviour
MaxCloses == 1          \* close_all calls in one behaviour
MaxDisconnects == 1     \* sockets the network or the exchange closes in one behaviour
MaxConnectFailures == 1 \* connects the exchange refuses in one behaviour
MaxWriteErrors == 1     \* socket writes that fail in one behaviour
MaxPings == 1           \* heartbeat ticks in one behaviour
EventCapacity == 2      \* messages the broadcast channel retains (1024 in mod.rs 117)
MaxSubEvents == 2       \* answers of the exchange to subscribe frames in one behaviour
MaxTexts == 3           \* text frames the decoder is given in one behaviour

\* The scenarios that are explored: a configuration of the client
\* (auto_reconnect, credentials configured) and a workload, which gives how
\* many calls of each kind the callers make and how many faults of each
\* kind the network produces, and how many subscribe frames the exchange
\* answers.
Workload(s, u, c, x, d, f, w, p, e) ==
    [subscribe |-> s, unsubscribe |-> u, command |-> c, close_all |-> x,
     disconnects |-> d, connect_failures |-> f, write_errors |-> w, pings |-> p,
     sub_events |-> e]

Scenario(ar, cr, w) ==
    [auto_reconnect |-> ar, credentials |-> cr, listener |-> FALSE, workload |-> w]
\* the same with a listener: the application holds a receiver it got from
\* event_receiver() before its first call
ListenerScenario(ar, cr, w) ==
    [auto_reconnect |-> ar, credentials |-> cr, listener |-> TRUE, workload |-> w]

Scenarios ==
    { \* two subscribe calls and a close_all
      Scenario(TRUE, TRUE, Workload(MaxSubscribes, 0, 0, MaxCloses, 0, 0, 0, 0, 0)),
      \* a subscribe call, a command and a close_all
      Scenario(TRUE, TRUE, Workload(1, 0, 1, MaxCloses, 0, 0, 0, 0, 0)),
      \* no credentials, no auto-reconnect: a subscribe call, a command, a disconnect
      Scenario(FALSE, FALSE, Workload(1, 0, 1, 0, MaxDisconnects, 0, 0, 0, 0)),
      \* a subscribe and an unsubscribe call, a disconnect, a refused connect
      Scenario(TRUE, TRUE, Workload(1, MaxUnsubscribes, 0, 0, MaxDisconnects,
                                    MaxConnectFailures, 0, 0, 0)),
      \* a subscribe call, a disconnect and a close_all
      Scenario(TRUE, TRUE, Workload(1, 0, 0, MaxCloses, MaxDisconnects, 0, 0, 0, 0)),
      \* a subscribe call, a failing socket write, a heartbeat tick
      Scenario(TRUE, TRUE, Workload(1, 0, 0, 0, 0, 0, MaxWriteErrors, MaxPings, 0)),
      \* no credentials, no auto-reconnect: two commands and a disconnect
      Scenario(FALSE, FALSE, Workload(0, 0, MaxCommands, 0, MaxDisconnects, 0, 0, 0, 0)),
      \* a listener: a subscribe call and a disconnect
      ListenerScenario(TRUE, TRUE, Workload(1, 0, 0, 0, MaxDisconnects, 0, 0, 0, 0)),
      \* a listener: a subscribe call answered by the exchange, a disconnect
      ListenerScenario(FALSE, TRUE, Workload(1, 0, 0, 0, MaxDisconnects, 0, 0, 0,
                                             MaxSubEvents)),
      \* credentials, no auto-reconnect: two subscribe calls and a disconnect
      Scenario(FALSE, TRUE, Workload(MaxSubscribes, 0, 0, 0, MaxDisconnects, 0, 0, 0, 0)),
      \* no credentials, no auto-reconnect: a subscribe call, a disconnect, a
      \* heartbeat tick
      Scenario(FALSE, FALSE, Workload(1, 0, 0, 0, MaxDisconnects, 0, 0, MaxPings, 0)) }

\* ------------------------------------------------------- connection types
Public == "Public"
Private == "Private"
Business == "Business"
WsConnectionType == {Public, Private, Business}

\* ConnectionState
Disconnected == "Disconnected"
Connecting == "Connecting"
Connected == "Connected"
Authenticated == "Authenticated"
Reconnecting == "Reconnecting"
ConnectionState == {Disconnected, Connecting, Connected, Authenticated, Reconnecting}

\* --------------------------------------------------------------- channels
\* Channel names are strings; they are kept as sequences of characters so
\* that the prefix tests of is_business are computed, not tabulated.
CH_tickers == <<"t","i","c","k","e","r","s">>
CH_orders == <<"o","r","d","e","r","s">>
CH_candle1m == <<"c","a","n","d","l","e","1","m">>
CH_candle == <<"c","a","n","d","l","e">>
CH_mark_price_candle == <<"m","a","r","k","-","p","r","i","c","e","-","c","a","n","d","l","e">>
CH_index_candle == <<"i","n","d","e","x","-","c","a","n","d","l","e">>
CH_grid_orders_spot == <<"g","r","i","d","-","o","r","d","e","r","s","-","s","p","o","t">>
CH_grid_orders_contract ==
    <<"g","r","i","d","-","o","r","d","e","r","s","-","c","o","n","t","r","a","c","t">>

starts_with(s, p) == Len(p) <= Len(s) /\ SubSeq(s, 1, Len(p)) = p

\* WsSubscriptionArg: channel plus filter fields (inst_id is the one used here).
with_inst_id(channel, inst_id) == [channel |-> channel, inst_id |-> inst_id]
channel_only(channel) == [channel |-> channel, inst_id |-> ""]

TopicTickers == with_inst_id(CH_tickers, "BTC-USDT")
TopicOrders == channel_only(CH_orders)
TopicCandle == with_inst_id(CH_candle1m, "BTC-USDT")
Topics == {TopicTickers, TopicOrders, TopicCandle}

PrivateChannels ==
    { CH_orders,
      <<"a","c","c","o","u","n","t">>,
      <<"p","o","s","i","t","i","o","n","s">>,
      <<"b","a","l","a","n","c","e","_","a","n","d","_","p","o","s","i","t","i","o","n">>,
      <<"o","r","d","e","r","s","-","a","l","g","o">>,
      <<"a","l","g","o","-","a","d","v","a","n","c","e">>,
      <<"l","i","q","u","i","d","a","t","i","o","n","-","w","a","r","n","i","n","g">>,
      <<"a","c","c","o","u","n","t","-","g","r","e","e","k","s">>,
      <<"g","r","i","d","-","o","r","d","e","r","s","-","s","p","o","t">>,
      <<"g","r","i","d","-","o","r","d","e","r","s","-","c","o","n","t","r","a","c","t">>,
      <<"g","r","i","d","-","o","r","d","e","r","s","-","m","o","o","n">>,
      <<"g","r","i","d","-","p","o","s","i","t","i","o","n","s">>,
      <<"g","r","i","d","-","s","u","b","-","o","r","d","e","r","s">> }

BusinessChannels ==
    { <<"d","e","p","o","s","i","t","-","i","n","f","o">>,
      <<"w","i","t","h","d","r","a","w","a","l","-","i","n","f","o">>,
      <<"g","r","i","d","-","o","r","d","e","r","s","-","s","p","o","t">>,
      <<"g","r","i","d","-","o","r","d","e","r","s","-","c","o","n","t","r","a","c","t">> }

is_private(arg) == arg.channel \in PrivateChannels

is_business(arg) ==
    \/ starts_with(arg.channel, CH_candle)
    \/ starts_with(arg.channel, CH_mark_price_candle)
    \/ starts_with(arg.channel, CH_index_candle)
    \/ arg.channel \in BusinessChannels

\* a routing that tests is_business first (used to validate C21)
route_subscription_business_first(arg) ==
    IF is_business(arg) THEN Business
    ELSE IF is_private(arg) THEN Private
    ELSE Public

route_subscription(arg) ==
    IF is_private(arg) THEN Private
    ELSE IF is_business(arg) THEN Business
    ELSE Public

\* partition_args: the arguments of one call that go to connection c.
partition_args(A, c) == {a \in A : route_subscription(a) = c}

ConnOrder == <<Public, Private, Business>>
ConnIdx(c) == CHOOSE n \in 1..3 : ConnOrder[n] = c

\* subscribe / unsubscribe walk the partitions in the order public, private,
\* business and skip the empty ones; "none" when no partition is left.
NextPartition(A, from) ==
    LET cand == {n \in from..3 : partition_args(A, ConnOrder[n]) # {}}
    IN IF cand = {} THEN "none"
       ELSE ConnOrder[CHOOSE n \in cand : \A m \in cand : n <= m]

\* The argument lists the callers use.
SubscribeInputs ==
    { {TopicTickers}, {TopicOrders} }

\* Channel names for the routing alone: every name is_private and
\* is_business mention, names that carry one of the three prefixes, the
\* prefixes themselves, and names the code does not know (among them the
\* empty name, a proper prefix of "candle" and names that extend a listed
\* name).
CH_unknown ==
    { CH_tickers, <<>>,
      <<"t","r","a","d","e","s">>,
      <<"c","a","n","d","l">>,
      <<"o","r","d","e","r","s","2">>,
      <<"d","e","p","o","s","i","t","-","i","n","f","o","s">>,
      <<"x","c","a","n","d","l","e","1","m">> }
RouteChannels ==
    PrivateChannels \cup BusinessChannels \cup CH_unknown \cup
    { CH_candle, CH_candle1m, CH_mark_price_candle, CH_index_candle,
      CH_mark_price_candle \o <<"1","H">>, CH_index_candle \o <<"1","D">> }
\* the values of the filter field
RouteFilters == {"", "BTC-USDT"}
\* one-topic argument lists over these names and filters
RouteInputs == { {with_inst_id(ch, f)} : ch \in RouteChannels, f \in RouteFilters }
\* the workload for the routing: subscribe calls only
RouteScenario == Scenario(FALSE, FALSE, Workload(MaxSubscribes, 0, 0, 0, 0, 0, 0, 0, 0))

\* send_api_request chooses the connection from the prefix of the operation.
OP_order == <<"o","r","d","e","r">>
OP_sprd_order == <<"s","p","r","d","-","o","r","d","e","r">>
OP_sprd_prefix == <<"s","p","r","d","-">>
CommandOps == {OP_order, OP_sprd_order}
CommandConn(operation) ==
    IF starts_with(operation, OP_sprd_prefix) THEN Business ELSE Private

\* ------------------------------------------------------------------ tasks
Callers == 1..NumCallers
Transports == 1..MaxTransports
\* the reconnect task spawned by the processing loop of transport t
ReconnectTask(t) == NumCallers + t
Tasks == 1..(NumCallers + MaxTransports)
ReconnectTasks == Tasks \ Callers

\* ------------------------------------------------------------- request ids
\* u64::to_string: the decimal digits of n, most significant first
Digits == <<"0", "1", "2", "3", "4", "5", "6", "7", "8", "9">>
RECURSIVE to_string(_)
to_string(n) ==
    IF n < 10 THEN <<Digits[n + 1]>>
    ELSE Append(to_string(n \div 10), Digits[(n % 10) + 1])
\* the id of a frame or message that has none
NoId == <<>>
\* the ids that are allocated in one behaviour
RequestIds == {to_string(n) : n \in 1..MaxCommands}

\* ----------------------------------------------------------------- frames
\* op is the op of a subscription or login request; a WS API request has the
\* op the caller gave (a channel-like name, kept in `name`) and an id
Frame(o, nm, a, n) == [op |-> o, name |-> nm, args |-> a, id |-> n]
SubscribeFrame(a) == Frame("subscribe", <<>>, a, NoId)
UnsubscribeFrame(a) == Frame("unsubscribe", <<>>, a, NoId)
LoginFrame == Frame("login", <<>>, {}, NoId)
CommandFrame(operation, n) == Frame("request", operation, {}, n)

\* parsed inbound messages (WsMessage)
Msg(k, e, c, n, m) == [kind |-> k, event |-> e, code |-> c, id |-> n, msg |-> m]
LoginAck(c) == Msg("Event", "login", c, NoId, "")
ApiResponse(n, c, m) == Msg("ApiResponse", "", c, n, m)
DisconnectedMsg == Msg("Disconnected", "", "", NoId, "")
\* the events with which the exchange answers the subscription of a topic:
\* the acknowledgement and the error event
SubscribeEvent == Msg("Event", "subscribe", "", NoId, "")
ErrorEvent == Msg("Event", "error", "1", NoId, "")
\* WsMessage::Pong and WsMessage::Data
PongMsg == Msg("Pong", "", "", NoId, "")
DataMsg == Msg("Data", "", "", NoId, "")
\* the None of Option<WsMessage>
None == Msg("None", "", "", NoId, "")
\* WsMessage::Connected, the notification connect_inner publishes
ConnectedMsg == Msg("Connected", "", "", NoId, "")
Codes == {"0", "1"}
\* the code and msg of the WS API responses the exchange gives
Replies == { [code |-> "0", msg |-> ""], [code |-> "1", msg |-> "Order failed"] }
\* the value of a oneshot receiver that holds no response
NoResponse == [code |-> "", msg |-> ""]

\* ConnectionStore::new
NewConnectionStore ==
    [exists |-> TRUE, state |-> Disconnected, subscribed_topics |-> {},
     pending_topics |-> {}, is_authenticated |-> FALSE]
\* the None of WsStore's Option<ConnectionStore>
NoRecord ==
    [exists |-> FALSE, state |-> Disconnected, subscribed_topics |-> {},
     pending_topics |-> {}, is_authenticated |-> FALSE]

VARIABLES
    config,              \* WsConfig: auto_reconnect, credentials (is Some); and
                         \*   whether the application holds an event receiver
    event_tx,            \* the broadcast channel: number of messages sent into it
                         \*   and the messages it retains, oldest first
    event_rx,            \* the position of the listener: the number of messages it
                         \*   has received or lost
    budget,              \* what the callers and the network may still do in this
                         \*   behaviour: calls of each kind, faults of each kind, pings
    store,               \* WsStore: one record (or NoRecord) per connection type
    write_txs,           \* WriteChannels: transport whose write_tx is registered, 0 = None
    pending_requests,    \* PendingRequests.inner: the ids that have a registered sender
    REQUEST_ID_COUNTER,  \* api.rs: the static id counter
    nextT,               \* number of transports opened so far
    tr,                  \* per transport: conn, reader, hb (loops running),
                         \*   hb_stop (the stop signal of the heartbeat was sent),
                         \*   rx (what the decoder made of each text frame it was
                         \*   given: the kind of the message, or "None"),
                         \*   write_failed (the write loop ended on a socket error),
                         \*   procpc (processing task),
                         \*   flush (login arm: drained topics), inbox (msg_rx),
                         \*   wq (frames sent into write_tx, pings apart), pings
                         \*   (pings sent into write_tx), acked (a successful
                         \*   login ack of this transport has been handled),
                         \*   login_replied (the exchange answered the login frame),
                         \*   sub_replied (topics whose subscription the exchange
                         \*   answered), sub_acked (those it acknowledged)
    answered,            \* command ids the exchange has answered
    task,                \* per caller / reconnect task: pc, op, args, cmd, conn, newT,
                         \*   reqId, rx (oneshot receiver) and resp (the response it
                         \*   holds or, after the call, the one the call returned),
                         \*   result (of the last call)
    closed               \* close_all has returned with no other call in progress,
                         \*   and no call was started since

vars == <<config, event_tx, event_rx, budget, store, write_txs, pending_requests, REQUEST_ID_COUNTER,
          nextT, tr, answered, task, closed>>

NoTransport ==
    [conn |-> "none", reader |-> FALSE, write_failed |-> FALSE, hb |-> FALSE,
     hb_stop |-> FALSE, rx |-> <<>>,
     procpc |-> "none", flush |-> {}, inbox |-> <<>>,
     wq |-> <<>>, pings |-> 0, acked |-> FALSE, login_replied |-> FALSE,
     sub_replied |-> {}, sub_acked |-> {}]

IdleTask ==
    [pc |-> "idle", op |-> "none", args |-> {}, cmd |-> <<>>, conn |-> "none",
     newT |-> 0, reqId |-> NoId, rx |-> "none", resp |-> NoResponse, result |-> "none"]

\* WebsocketClient::new: empty store, no write channel, empty registry.
InitWith(sc) ==
    /\ config = [auto_reconnect |-> sc.auto_reconnect, credentials |-> sc.credentials,
                 listener |-> sc.listener]
    /\ budget = sc.workload
    /\ event_tx = [sent |-> 0, tail |-> <<>>]
    /\ event_rx = 0
    /\ store = [c \in WsConnectionType |-> NoRecord]
    /\ write_txs = [c \in WsConnectionType |-> 0]
    /\ pending_requests = {}
    /\ REQUEST_ID_COUNTER = 1
    /\ nextT = 0
    /\ tr = [t \in Transports |-> NoTransport]
    /\ answered = {}
    /\ task = [i \in Tasks |-> IdleTask]
    /\ closed = FALSE

Init == \E sc \in Scenarios : InitWith(sc)

\* ------------------------------------------------------------------ locks
\* store (RwLock<WsStore>): the only holder across an await is the login arm
\* of a processing loop, which keeps the write guard while it waits for
\* write_txs.read() (mod.rs 350-359).
StoreLocked == \E t \in Transports : tr[t].procpc = "login_flush"
CanLockStore == ~StoreLocked

\* write_txs (RwLock<WriteChannels>): close_all keeps the write guard while it
\* waits for store.write() (mod.rs 488-493); send_subscribe, send_unsubscribe
\* and send_api_request keep a read guard until they return.
WtWriteLocked == \E i \in Tasks : task[i].pc = "close_store"
WtReadHolders == {i \in Tasks : task[i].pc \in {"sub_confirm", "unsub_store", "cmd_wait"}}
CanReadWt == ~WtWriteLocked
CanWriteWt == ~WtWriteLocked /\ WtReadHolders = {}

\* ------------------------------------------------------------ WsStore ops
get(s, c) == s[c]
\* a get_or_create that inserts the records of all three connections (used
\* to validate C39)
get_or_create_all(s, c) ==
    [x \in WsConnectionType |-> IF s[x].exists THEN s[x] ELSE NewConnectionStore]
get_or_create(s, c) == IF s[c].exists THEN s ELSE [s EXCEPT ![c] = NewConnectionStore]

\* ----------------------------------------------------- PendingRequests ops
\* a register that stores no waiter (used to validate C36)
register_nothing(inner, id) == inner
register(inner, id) == inner \cup {id}
\* a resolve that drops every entry (used to validate C13)
resolve_all(inner, id) == {}
resolve(inner, id) == inner \ {id}
\* a reject_all that leaves the registry as it is (used to validate C3)
reject_all_keeps(inner) == inner
reject_all(inner) == {}

\* tx.send on a write channel fails once the write loop has ended (the
\* receiver is dropped); otherwise the frame is queued.  A holder of a
\* sender sees the loop ended only after a socket write error.
SendOk(t) == ~tr[t].write_failed
Enqueue(trs, t, f) == [trs EXCEPT ![t].wq = Append(@, f)]

\* ---------------------------------------------------------------- fan-out
\* a message of the fan-out: the WsMessage and the connection it belongs to
Published(m, c) == [msg |-> m, conn |-> c]

\* a retention that keeps the oldest messages and drops the new one (used to
\* validate C18)
Retain_oldest(q) == IF Len(q) <= EventCapacity THEN q ELSE SubSeq(q, 1, EventCapacity)

\* tokio broadcast: the channel retains the newest EventCapacity messages
Retain(q) ==
    IF Len(q) <= EventCapacity THEN q
    ELSE SubSeq(q, Len(q) - EventCapacity + 1, Len(q))

\* event_tx.send (mod.rs 456, 479): never waits; with no receiver the send
\* fails and the message is dropped, which the callers ignore
Publish(ch, item) ==
    IF ~config.listener THEN ch
    ELSE [sent |-> ch.sent + 1, tail |-> Retain(Append(ch.tail, item))]

\* the position of the oldest message the channel still retains
OldestRetained(ch) == ch.sent - Len(ch.tail)

\* ------------------------------------------------------------ task helpers
Goto(i, p) == [task EXCEPT ![i].pc = p]

\* the call (or the reconnect task) ends with result res; its locals die
Return(i, res) ==
    [task EXCEPT ![i] = [IdleTask EXCEPT !.pc = IF i \in Callers THEN "idle" ELSE "done",
                                        !.result = res]]

\* the topics send_subscribe / send_unsubscribe got from their caller
TopicsOf(i) ==
    IF task[i].op = "reconnect" THEN task[i].args
    ELSE partition_args(task[i].args, task[i].conn)

\* where the task goes on when ensure_connected / connect returned Ok
AfterConnect(i) ==
    CASE task[i].op = "subscribe" ->
            IF task[i].conn = Public THEN "sub_send" ELSE "sub_check"
      [] task[i].op = "command" -> "cmd_register"
      [] task[i].op = "reconnect" ->
            IF task[i].args # {} THEN "sub_send" ELSE "done"

ConnectReturnsOk(i) ==
    IF AfterConnect(i) = "done" THEN Return(i, "Ok")
    ELSE [task EXCEPT ![i].pc = AfterConnect(i), ![i].newT = 0]

\* after send_subscribe / send_unsubscribe returned Ok for one partition
AfterPartition(i, again) ==
    LET nxt == IF task[i].op = "reconnect" THEN "none"
               ELSE NextPartition(task[i].args, ConnIdx(task[i].conn) + 1)
    IN IF nxt = "none" THEN Return(i, "Ok")
       ELSE [task EXCEPT ![i].pc = again, ![i].conn = nxt]

\* ------------------------------------------------------------ client calls
\* The callers are interchangeable: a call is started by the lowest idle one.
MayCall(k, kind) ==
    /\ task[k].pc = "idle" /\ budget[kind] > 0
    /\ \A j \in Callers : j < k => task[j].pc # "idle"

\* subscribe (mod.rs 135-158): entry
CallSubscribe(k, A) ==
    /\ MayCall(k, "subscribe")
    /\ task' = [task EXCEPT ![k] = [IdleTask EXCEPT !.pc = "ensure", !.op = "subscribe",
                                        !.args = A, !.conn = NextPartition(A, 1)]]
    /\ budget' = [budget EXCEPT !.subscribe = @ - 1] /\ closed' = FALSE
    /\ UNCHANGED <<config, event_tx, event_rx, store, write_txs, pending_requests,
                   REQUEST_ID_COUNTER, nextT, tr, answered>>

\* unsubscribe (mod.rs 161-178): entry; no ensure_connected
CallUnsubscribe(k, A) ==
    /\ MayCall(k, "unsubscribe")
    /\ task' = [task EXCEPT ![k] = [IdleTask EXCEPT !.pc = "unsub_send", !.op = "unsubscribe",
                                        !.args = A, !.conn = NextPartition(A, 1)]]
    /\ budget' = [budget EXCEPT !.unsubscribe = @ - 1] /\ closed' = FALSE
    /\ UNCHANGED <<config, event_tx, event_rx, store, write_txs, pending_requests,
                   REQUEST_ID_COUNTER, nextT, tr, answered>>

\* send_api_request (mod.rs 181-192): entry, connection chosen from the op
CallCommand(k, o) ==
    /\ MayCall(k, "command")
    /\ task' = [task EXCEPT ![k] = [IdleTask EXCEPT !.pc = "ensure", !.op = "command",
                                        !.cmd = o, !.conn = CommandConn(o)]]
    /\ budget' = [budget EXCEPT !.command = @ - 1] /\ closed' = FALSE
    /\ UNCHANGED <<config, event_tx, event_rx, store, write_txs, pending_requests,
                   REQUEST_ID_COUNTER, nextT, tr, answered>>

\* close_all (mod.rs 487): entry
CallCloseAll(k) ==
    /\ MayCall(k, "close_all")
    /\ task' = [task EXCEPT ![k] = [IdleTask EXCEPT !.pc = "close_wtx", !.op = "close_all"]]
    /\ budget' = [budget EXCEPT !.close_all = @ - 1] /\ closed' = FALSE
    /\ UNCHANGED <<config, event_tx, event_rx, store, write_txs, pending_requests,
                   REQUEST_ID_COUNTER, nextT, tr, answered>>

\* ensure_connected (mod.rs 225-238)
IsReady(r) == r.exists /\ r.state \in {Connected, Authenticated}

Ensure(i) ==
    /\ task[i].pc = "ensure" /\ CanLockStore
    /\ task' = IF IsReady(get(store, task[i].conn))
               THEN Goto(i, AfterConnect(i))
               ELSE Goto(i, "ci_connecting")
    /\ UNCHANGED <<config, event_tx, event_rx, budget, store, write_txs, pending_requests,
                   REQUEST_ID_COUNTER, nextT, tr, answered, closed>>

\* ------------------------------------------------------------ connect_inner
\* mod.rs 318-321: state = Connecting
CiConnecting(i) ==
    /\ task[i].pc = "ci_connecting" /\ CanLockStore
    /\ store' = [get_or_create(store, task[i].conn) EXCEPT ![task[i].conn].state = Connecting]
    /\ task' = Goto(i, "ci_open")
    /\ UNCHANGED <<config, event_tx, event_rx, budget, write_txs, pending_requests,
                   REQUEST_ID_COUNTER, nextT, tr, answered, closed>>

\* mod.rs 323-331: connection::connect succeeds, spawn_io_tasks starts the
\* write and read loops, the heartbeat is spawned
CiOpenOk(i) ==
    /\ task[i].pc = "ci_open" /\ nextT < MaxTransports
    /\ nextT' = nextT + 1
    /\ tr' = [tr EXCEPT ![nextT + 1] =
                 [NoTransport EXCEPT !.conn = task[i].conn, !.reader = TRUE,
                                     !.hb = TRUE, !.procpc = "unspawned"]]
    /\ task' = [task EXCEPT ![i].pc = "ci_setwtx", ![i].newT = nextT + 1]
    /\ UNCHANGED <<config, event_tx, event_rx, budget, store, write_txs, pending_requests,
                   REQUEST_ID_COUNTER, answered, closed>>

\* mod.rs 323: connection::connect fails, `?` returns the error; the record
\* keeps the state written before
CiOpenFail(i) ==
    /\ task[i].pc = "ci_open"
    /\ IF nextT >= MaxTransports THEN budget' = budget
       ELSE /\ budget.connect_failures > 0
            /\ budget' = [budget EXCEPT !.connect_failures = @ - 1]
    /\ task' = Return(i, "ConnectErr")
    /\ UNCHANGED <<config, event_tx, event_rx, store, write_txs, pending_requests,
                   REQUEST_ID_COUNTER, nextT, tr, answered, closed>>

\* mod.rs 333-344: write_txs.set, then the processing task is spawned
CiSetWtx(i) ==
    /\ task[i].pc = "ci_setwtx" /\ CanWriteWt
    /\ write_txs' = [write_txs EXCEPT ![task[i].conn] = task[i].newT]
    /\ tr' = [tr EXCEPT ![task[i].newT].procpc = "loop"]
    /\ task' = Goto(i, "ci_connected")
    /\ UNCHANGED <<config, event_tx, event_rx, budget, store, pending_requests,
                   REQUEST_ID_COUNTER, nextT, answered, closed>>

\* mod.rs 462-467, 479-482: state = Connected; without a login step the
\* Connected notification is published and connect_inner returns Ok
CiConnected(i) ==
    /\ task[i].pc = "ci_connected" /\ CanLockStore
    /\ store' = [get_or_create(store, task[i].conn) EXCEPT ![task[i].conn].state = Connected]
    /\ IF task[i].conn # Public /\ config.credentials
       THEN task' = Goto(i, "ci_login") /\ event_tx' = event_tx
       ELSE /\ task' = ConnectReturnsOk(i)
            /\ event_tx' = Publish(event_tx, Published(ConnectedMsg, task[i].conn))
    /\ UNCHANGED <<config, event_rx, budget, write_txs, pending_requests,
                   REQUEST_ID_COUNTER, nextT, tr, answered, closed>>

\* mod.rs 468-482: the login frame goes to the write channel registered for
\* the connection type, if any
CiLogin(i) ==
    /\ task[i].pc = "ci_login" /\ CanReadWt
    /\ LET u == write_txs[task[i].conn]
           connected == Publish(event_tx, Published(ConnectedMsg, task[i].conn))
       IN IF u = 0
          THEN tr' = tr /\ task' = ConnectReturnsOk(i) /\ event_tx' = connected
          ELSE IF SendOk(u)
               THEN /\ tr' = Enqueue(tr, u, LoginFrame)
                    /\ task' = ConnectReturnsOk(i) /\ event_tx' = connected
          ELSE tr' = tr /\ task' = Return(i, "SendErr") /\ event_tx' = event_tx
    /\ UNCHANGED <<config, event_rx, budget, store, write_txs, pending_requests,
                   REQUEST_ID_COUNTER, nextT, answered, closed>>

\* ------------------------------------------------------------ send_subscribe
\* mod.rs 251-255: the authentication check under the store read lock
SubCheck(i) ==
    /\ task[i].pc = "sub_check" /\ CanLockStore
    /\ LET r == get(store, task[i].conn)
       IN task' = IF r.exists /\ ~r.is_authenticated
                  THEN Goto(i, "sub_pend") ELSE Goto(i, "sub_send")
    /\ UNCHANGED <<config, event_tx, event_rx, budget, store, write_txs, pending_requests,
                   REQUEST_ID_COUNTER, nextT, tr, answered, closed>>

\* mod.rs 256-261: the topics are queued in pending_topics, Ok is returned
SubPend(i) ==
    /\ task[i].pc = "sub_pend" /\ CanLockStore
    /\ store' = [get_or_create(store, task[i].conn) EXCEPT
                    ![task[i].conn].pending_topics = @ \cup TopicsOf(i)]
    /\ task' = AfterPartition(i, "ensure")
    /\ UNCHANGED <<config, event_tx, event_rx, budget, write_txs, pending_requests,
                   REQUEST_ID_COUNTER, nextT, tr, answered, closed>>

\* mod.rs 266-273: the subscribe frame is sent on the registered write
\* channel, if there is one; the read guard of write_txs stays held
SubSend(i) ==
    /\ task[i].pc = "sub_send" /\ CanReadWt
    /\ LET u == write_txs[task[i].conn]
       IN IF u = 0 THEN tr' = tr /\ task' = Goto(i, "sub_confirm")
          ELSE IF SendOk(u)
               THEN tr' = Enqueue(tr, u, SubscribeFrame(TopicsOf(i)))
                    /\ task' = Goto(i, "sub_confirm")
          ELSE tr' = tr /\ task' = Return(i, "SendErr")
    /\ UNCHANGED <<config, event_tx, event_rx, budget, store, write_txs, pending_requests,
                   REQUEST_ID_COUNTER, nextT, answered, closed>>

\* mod.rs 275-281: the topics are inserted into subscribed_topics
SubConfirm(i) ==
    /\ task[i].pc = "sub_confirm" /\ CanLockStore
    /\ store' = [get_or_create(store, task[i].conn) EXCEPT
                    ![task[i].conn].subscribed_topics = @ \cup TopicsOf(i)]
    /\ task' = AfterPartition(i, "ensure")
    /\ UNCHANGED <<config, event_tx, event_rx, budget, write_txs, pending_requests,
                   REQUEST_ID_COUNTER, nextT, tr, answered, closed>>

\* ---------------------------------------------------------- send_unsubscribe
\* mod.rs 290-297
UnsubSend(i) ==
    /\ task[i].pc = "unsub_send" /\ CanReadWt
    /\ LET u == write_txs[task[i].conn]
       IN IF u = 0 THEN tr' = tr /\ task' = Goto(i, "unsub_store")
          ELSE IF SendOk(u)
               THEN tr' = Enqueue(tr, u, UnsubscribeFrame(TopicsOf(i)))
                    /\ task' = Goto(i, "unsub_store")
          ELSE tr' = tr /\ task' = Return(i, "SendErr")
    /\ UNCHANGED <<config, event_tx, event_rx, budget, store, write_txs, pending_requests,
                   REQUEST_ID_COUNTER, nextT, answered, closed>>

\* mod.rs 299-305
UnsubStore(i) ==
    /\ task[i].pc = "unsub_store" /\ CanLockStore
    /\ store' = [get_or_create(store, task[i].conn) EXCEPT
                    ![task[i].conn].subscribed_topics = @ \ TopicsOf(i)]
    /\ task' = AfterPartition(i, "unsub_send")
    /\ UNCHANGED <<config, event_tx, event_rx, budget, write_txs, pending_requests,
                   REQUEST_ID_COUNTER, nextT, tr, answered, closed>>

\* ---------------------------------------------------------- send_api_request
\* an allocation that ignores the counter (used to validate C12)
next_request_id_same(counter) == to_string(1)

\* api.rs 13-15: fetch_add returns the old value
next_request_id(counter) == to_string(counter)

\* mod.rs 194-200: the id is allocated and its waiter registered
CmdRegister(i) ==
    /\ task[i].pc = "cmd_register"
    /\ REQUEST_ID_COUNTER' = REQUEST_ID_COUNTER + 1
    /\ pending_requests' = register(pending_requests, next_request_id(REQUEST_ID_COUNTER))
    /\ task' = [task EXCEPT ![i].pc = "cmd_send", ![i].rx = "waiting",
                            ![i].reqId = next_request_id(REQUEST_ID_COUNTER)]
    /\ UNCHANGED <<config, event_tx, event_rx, budget, store, write_txs, nextT, tr, answered, closed>>

\* mod.rs 201-207: the command frame is sent, or the call fails; the read
\* guard of write_txs stays held while the call waits
CmdSend(i) ==
    /\ task[i].pc = "cmd_send" /\ CanReadWt
    /\ LET u == write_txs[task[i].conn]
       IN IF u = 0 THEN tr' = tr /\ task' = Return(i, "NoConnection")
          ELSE IF SendOk(u)
               THEN tr' = Enqueue(tr, u, CommandFrame(task[i].cmd, task[i].reqId))
                    /\ task' = Goto(i, "cmd_wait")
          ELSE tr' = tr /\ task' = Return(i, "SendErr")
    /\ UNCHANGED <<config, event_tx, event_rx, budget, store, write_txs, pending_requests,
                   REQUEST_ID_COUNTER, nextT, answered, closed>>

\* a result that does not look at the code (used to validate C14)
Outcome_ok(r, response) == IF r = "closed" THEN "Cancelled" ELSE "Response"

\* mod.rs 209-221: what the call returns once its receiver is ready: the
\* response, or the failure that carries the code and msg of the response
Outcome(r, response) ==
    IF r = "closed" THEN "Cancelled"
    ELSE IF response.code = "0" THEN "Response"
    ELSE "ApiErr"

CmdReturn(i) ==
    /\ task[i].pc = "cmd_wait" /\ task[i].rx \in {"ready", "closed"}
    /\ task' = [Return(i, Outcome(task[i].rx, task[i].resp)) EXCEPT
                    ![i].resp = task[i].resp]
    /\ UNCHANGED <<config, event_tx, event_rx, budget, store, write_txs, pending_requests,
                   REQUEST_ID_COUNTER, nextT, tr, answered, closed>>

\* mod.rs 209-211: ten seconds pass with the receiver still empty; the
\* registry entry is left behind
CmdTimeout(i) ==
    /\ task[i].pc = "cmd_wait" /\ task[i].rx = "waiting"
    /\ task' = Return(i, "Timeout")
    /\ UNCHANGED <<config, event_tx, event_rx, budget, store, write_txs, pending_requests,
                   REQUEST_ID_COUNTER, nextT, tr, answered, closed>>

\* ------------------------------------------------------------------ close_all
\* mod.rs 488-491: every write channel handle is dropped; the write guard
\* stays held
CloseWtx(i) ==
    /\ task[i].pc = "close_wtx" /\ CanWriteWt
    /\ write_txs' = [c \in WsConnectionType |-> 0]
    /\ task' = Goto(i, "close_store")
    /\ UNCHANGED <<config, event_tx, event_rx, budget, store, pending_requests,
                   REQUEST_ID_COUNTER, nextT, tr, answered, closed>>

\* mod.rs 493-503: the state of every existing record becomes Disconnected
CloseStore(i) ==
    /\ task[i].pc = "close_store" /\ CanLockStore
    /\ store' = [c \in WsConnectionType |->
                    IF store[c].exists THEN [store[c] EXCEPT !.state = Disconnected]
                    ELSE store[c]]
    /\ task' = Return(i, "Ok")
    /\ closed' = (\A k \in Callers \ {i} : task[k].pc = "idle")
    /\ UNCHANGED <<config, event_tx, event_rx, budget, write_txs, pending_requests,
                   REQUEST_ID_COUNTER, nextT, tr, answered>>

\* ------------------------------------------------- processing loop (mod.rs 344-460)
HasMsg(t) == tr[t].procpc = "loop" /\ tr[t].inbox # <<>>
\* a recv that takes the newest message of the queue (used to validate C29)
Pop_newest(trs, t) == [trs EXCEPT ![t].inbox = SubSeq(@, 1, Len(@) - 1)]
Pop(trs, t) == [trs EXCEPT ![t].inbox = Tail(@)]

\* mod.rs 350-355: is_authenticated, state, and the drain of pending_topics
LoginSuccess(rec) ==
    [rec EXCEPT !.is_authenticated = TRUE, !.state = Authenticated, !.pending_topics = {}]

\* mod.rs 347-356, 456: login ack with code "0"; with drained topics the store
\* write guard stays held while the task waits for write_txs.read(),
\* otherwise the arm ends and the message is published
ProcLoginOk(t) ==
    /\ HasMsg(t) /\ Head(tr[t].inbox) = LoginAck("0") /\ CanLockStore
    /\ LET c == tr[t].conn
           s1 == get_or_create(store, c)
           pending == s1[c].pending_topics
       IN /\ store' = [s1 EXCEPT ![c] = LoginSuccess(@)]
          /\ tr' = IF pending = {}
                   THEN [Pop(tr, t) EXCEPT ![t].acked = TRUE]
                   ELSE [tr EXCEPT ![t].acked = TRUE, ![t].procpc = "login_flush",
                                   ![t].flush = pending]
          /\ event_tx' = IF pending = {}
                         THEN Publish(event_tx, Published(Head(tr[t].inbox), c))
                         ELSE event_tx
    /\ UNCHANGED <<config, event_rx, budget, write_txs, pending_requests,
                   REQUEST_ID_COUNTER, nextT, answered, task, closed>>

\* mod.rs 357-368: one subscribe frame for the drained topics if a write
\* channel is registered (a failed send is ignored), then the topics are
\* inserted into subscribed_topics, both guards are released and the
\* message is published (mod.rs 456)
ProcLoginFlush(t) ==
    /\ tr[t].procpc = "login_flush" /\ CanReadWt
    /\ LET c == tr[t].conn
           u == write_txs[c]
           tr1 == IF u # 0 /\ SendOk(u)
                  THEN Enqueue(tr, u, SubscribeFrame(tr[t].flush)) ELSE tr
       IN /\ tr' = [Pop(tr1, t) EXCEPT ![t].procpc = "loop", ![t].flush = {}]
          /\ store' = [store EXCEPT ![c].subscribed_topics = @ \cup tr[t].flush]
          /\ event_tx' = Publish(event_tx, Published(Head(tr[t].inbox), c))
    /\ UNCHANGED <<config, event_rx, budget, write_txs, pending_requests,
                   REQUEST_ID_COUNTER, nextT, answered, task, closed>>

\* a handling of the failed login that marks the record disconnected (used
\* to validate C15)
ProcLoginFail_disconnects(t) ==
    /\ HasMsg(t) /\ Head(tr[t].inbox).kind = "Event"
    /\ Head(tr[t].inbox).event = "login" /\ Head(tr[t].inbox).code # "0"
    /\ tr' = Pop(tr, t)
    /\ store' = [store EXCEPT ![tr[t].conn].state = Disconnected]
    /\ event_tx' = Publish(event_tx, Published(Head(tr[t].inbox), tr[t].conn))
    /\ UNCHANGED <<config, event_rx, budget, write_txs, pending_requests,
                   REQUEST_ID_COUNTER, nextT, answered, task, closed>>

\* mod.rs 369-371: login ack with another code is logged only
ProcLoginFail(t) ==
    /\ HasMsg(t) /\ Head(tr[t].inbox).kind = "Event"
    /\ Head(tr[t].inbox).event = "login" /\ Head(tr[t].inbox).code # "0"
    /\ tr' = Pop(tr, t)
    /\ event_tx' = Publish(event_tx, Published(Head(tr[t].inbox), tr[t].conn))
    /\ UNCHANGED <<config, event_rx, budget, store, write_txs, pending_requests,
                   REQUEST_ID_COUNTER, nextT, answered, task, closed>>

\* mod.rs 347, 453-456: an event other than login, a data push and a pong
\* match no arm that acts; the message is published
ProcEvent(t) ==
    /\ HasMsg(t) /\ Head(tr[t].inbox).kind \in {"Event", "Data", "Pong"}
    /\ Head(tr[t].inbox).kind = "Event" => Head(tr[t].inbox).event # "login"
    /\ tr' = Pop(tr, t)
    /\ event_tx' = Publish(event_tx, Published(Head(tr[t].inbox), tr[t].conn))
    /\ UNCHANGED <<config, event_rx, budget, store, write_txs, pending_requests,
                   REQUEST_ID_COUNTER, nextT, answered, task, closed>>

\* the oneshot receivers of the ids in `ids` become v: "ready" with the
\* response that was sent, or "closed" when the sender was dropped
Deliver(ids, v, response) ==
    [i \in Tasks |->
        IF task[i].rx = "waiting" /\ task[i].reqId \in ids
        THEN [task[i] EXCEPT !.rx = v, !.resp = response] ELSE task[i]]

\* mod.rs 373-376 and api.rs 45-52: resolve removes the entry and sends the
\* response to its receiver
ProcApiResponse(t) ==
    /\ HasMsg(t) /\ Head(tr[t].inbox).kind = "ApiResponse"
    /\ LET m == Head(tr[t].inbox)
       IN /\ pending_requests' = resolve(pending_requests, m.id)
          /\ task' = Deliver(pending_requests \ pending_requests', "ready",
                              [code |-> m.code, msg |-> m.msg])
    /\ tr' = Pop(tr, t)
    /\ event_tx' = Publish(event_tx, Published(Head(tr[t].inbox), tr[t].conn))
    /\ UNCHANGED <<config, event_rx, budget, store, write_txs, REQUEST_ID_COUNTER, nextT,
                   answered, closed>>

\* mod.rs 379-384
MarkDisconnected(rec) == [rec EXCEPT !.state = Disconnected, !.is_authenticated = FALSE]

ProcDisconnected(t) ==
    /\ HasMsg(t) /\ Head(tr[t].inbox).kind = "Disconnected" /\ CanLockStore
    /\ store' = [get_or_create(store, tr[t].conn) EXCEPT ![tr[t].conn] = MarkDisconnected(@)]
    /\ tr' = [tr EXCEPT ![t].procpc = "disc_reject"]
    /\ UNCHANGED <<config, event_tx, event_rx, budget, write_txs, pending_requests,
                   REQUEST_ID_COUNTER, nextT, answered, task, closed>>

\* mod.rs 386-389: reject_all drops every sender of the registry
ProcRejectAll(t) ==
    /\ tr[t].procpc = "disc_reject"
    /\ pending_requests' = reject_all(pending_requests)
    /\ task' = Deliver(pending_requests \ pending_requests', "closed", NoResponse)
    /\ tr' = [tr EXCEPT ![t].procpc = "disc_remove"]
    /\ UNCHANGED <<config, event_tx, event_rx, budget, store, write_txs, REQUEST_ID_COUNTER, nextT,
                   answered, closed>>

\* mod.rs 391-399, 451, 459: the write channel handle of the connection
\* type is removed, the reconnect task is spawned when auto_reconnect is
\* set, the loop ends (msg_rx is dropped) and the stop signal of the
\* heartbeat is sent
ProcRemoveWtx(t) ==
    /\ tr[t].procpc = "disc_remove" /\ CanWriteWt
    /\ write_txs' = [write_txs EXCEPT ![tr[t].conn] = 0]
    /\ task' = IF config.auto_reconnect
               THEN [task EXCEPT ![ReconnectTask(t)] =
                        [IdleTask EXCEPT !.pc = "r_sleep", !.op = "reconnect",
                                         !.conn = tr[t].conn]]
               ELSE task
    /\ tr' = [tr EXCEPT ![t].procpc = "done", ![t].hb_stop = TRUE, ![t].inbox = <<>>]
    /\ UNCHANGED <<config, event_tx, event_rx, budget, store, pending_requests, REQUEST_ID_COUNTER, nextT,
                   answered, closed>>

\* ------------------------------------------------ reconnect task (mod.rs 399-448)
\* a hand-over that drops the topics instead of queueing them (used to
\* validate C7)
HandOver_drops(rec) == [rec EXCEPT !.subscribed_topics = {}]

\* mod.rs 418-425: subscribed_topics are drained into pending_topics
HandOver(rec) ==
    [rec EXCEPT !.pending_topics = @ \cup rec.subscribed_topics, !.subscribed_topics = {}]

\* a snapshot that forgets the topics (used to validate C8)
PublicTopics_none(s, c) == {}

\* mod.rs 408-416: the public topics are copied, the record is not changed
PublicTopics(s, c) == IF s[c].exists THEN s[c].subscribed_topics ELSE {}

\* mod.rs 401-431: after the delay the topics are handed over, then
\* connect is called
ReconnectHandOver(i) ==
    /\ task[i].pc = "r_sleep" /\ CanLockStore
    /\ IF task[i].conn = Public
       THEN /\ task' = [task EXCEPT ![i].pc = "ci_connecting",
                                    ![i].args = PublicTopics(store, Public)]
            /\ store' = store
       ELSE /\ task' = Goto(i, "ci_connecting")
            /\ store' = [get_or_create(store, task[i].conn) EXCEPT
                            ![task[i].conn] = HandOver(@)]
    /\ UNCHANGED <<config, event_tx, event_rx, budget, write_txs, pending_requests,
                   REQUEST_ID_COUNTER, nextT, tr, answered, closed>>

\* ---------------------------------------------- read loop (connection.rs 123-146)
HasFrame(t, o) == \E n \in 1..Len(tr[t].wq) : tr[t].wq[n].op = o
CommandIds(t) == {tr[t].wq[n].id : n \in 1..Len(tr[t].wq)} \ {NoId}

\* the exchange answers the login frame; the read loop parses the text and
\* sends the event to msg_rx
ReadLoginAck(t, code) ==
    /\ tr[t].reader /\ Len(tr[t].inbox) < MaxInbox
    /\ HasFrame(t, "login") /\ ~tr[t].login_replied
    /\ tr' = [tr EXCEPT ![t].inbox = Append(@, LoginAck(code)), ![t].login_replied = TRUE]
    /\ UNCHANGED <<config, event_tx, event_rx, budget, store, write_txs, pending_requests,
                   REQUEST_ID_COUNTER, nextT, answered, task, closed>>

\* ------------------------------------------- decoder (connection.rs 46-88)
\* A text frame is the literal pong, a text that is not JSON, or a JSON
\* value.  A JSON object is given by the type of the value of each key the
\* decoder looks at ("absent" when the object has no such key).
JsonObjects ==
    [id : {"absent", "null", "string"}, op : {"absent", "string"},
     code : {"absent", "string", "array"}, arg : {"absent", "string", "object"},
     data : {"absent", "null", "array"}, event : {"absent", "null", "string"}]
NoFields ==
    [id |-> "absent", op |-> "absent", code |-> "absent", arg |-> "absent",
     data |-> "absent", event |-> "absent"]
PongText == [raw |-> "pong", value |-> "none", fields |-> NoFields]
GarbageText == [raw |-> "garbage", value |-> "none", fields |-> NoFields]
ArrayText == [raw |-> "json", value |-> "array", fields |-> NoFields]
ObjectText(f) == [raw |-> "json", value |-> "object", fields |-> f]
TextFrames == {PongText, GarbageText, ArrayText} \cup {ObjectText(f) : f \in JsonObjects}

\* serde_json::Value::get(key).is_some(): a key of an object, whatever its
\* value; None for a value that is not an object
has(text, key) == text.value = "object" /\ text.fields[key] # "absent"

\* serde_json::from_value into the three structs (events.rs 7-15, 19-32,
\* 53-64): required fields must be present with their type; a defaulted Vec
\* may be absent; an Option takes null
de_WsApiResponse(f) ==
    /\ f.id = "string" /\ f.op = "string" /\ f.code = "string"
    /\ f.data \in {"absent", "array"}
de_WsDataEvent(f) == f.arg = "object" /\ f.data = "array"
de_WsEvent(f) == f.event = "string" /\ f.code \in {"absent", "null", "string"}

\* the messages the three structs give: the strings of the model's frames
\* are the id "1", the code "0" and the event "subscribe"
ParsedResponse(f) == ApiResponse(to_string(1), "0", "")
ParsedEvent(f) == Msg("Event", "subscribe", IF f.code = "string" THEN "0" ELSE "", NoId, "")

\* a decoder that tests for `event` before `arg` and `data` (used to
\* validate C38)
parse_ws_message_event_first(text) ==
    IF text.raw = "pong" THEN PongMsg
    ELSE IF text.raw # "json" THEN None
    ELSE IF has(text, "id") /\ has(text, "op")
         THEN IF de_WsApiResponse(text.fields) THEN ParsedResponse(text.fields) ELSE None
    ELSE IF has(text, "event")
         THEN IF de_WsEvent(text.fields) THEN ParsedEvent(text.fields) ELSE None
    ELSE IF has(text, "arg") /\ has(text, "data")
         THEN IF de_WsDataEvent(text.fields) THEN DataMsg ELSE None
    ELSE None

\* connection.rs 46-88
parse_ws_message(text) ==
    IF text.raw = "pong" THEN PongMsg
    ELSE IF text.raw # "json" THEN None
    ELSE IF has(text, "id") /\ has(text, "op")
         THEN IF de_WsApiResponse(text.fields) THEN ParsedResponse(text.fields) ELSE None
    ELSE IF has(text, "arg") /\ has(text, "data")
         THEN IF de_WsDataEvent(text.fields) THEN DataMsg ELSE None
    ELSE IF has(text, "event")
         THEN IF de_WsEvent(text.fields) THEN ParsedEvent(text.fields) ELSE None
    ELSE None

\* connection.rs 125-133: the read loop decodes a text frame and sends the
\* message to msg_rx; a frame that decodes to None is skipped
ReadText(t, text) ==
    /\ tr[t].reader /\ Len(tr[t].inbox) < MaxInbox /\ Len(tr[t].rx) < MaxTexts
    /\ LET parsed == parse_ws_message(text)
       IN tr' = [tr EXCEPT ![t].rx = Append(@, parsed.kind),
                           ![t].inbox = IF parsed = None THEN @ ELSE Append(@, parsed)]
    /\ UNCHANGED <<config, event_tx, event_rx, budget, store, write_txs, pending_requests,
                   REQUEST_ID_COUNTER, nextT, answered, task, closed>>

\* the topics of the subscribe frames sent on this transport
SubscribedOn(t) ==
    UNION {tr[t].wq[n].args : n \in {m \in 1..Len(tr[t].wq) : tr[t].wq[m].op = "subscribe"}}

\* the exchange answers the subscription of topic a, with the
\* acknowledgement or with an error event; the read loop parses the text
\* and sends the event to msg_rx
ReadSubscribeEvent(t, a, ok) ==
    /\ tr[t].reader /\ Len(tr[t].inbox) < MaxInbox
    /\ budget.sub_events > 0
    /\ a \in SubscribedOn(t) \ tr[t].sub_replied
    /\ budget' = [budget EXCEPT !.sub_events = @ - 1]
    /\ tr' = [tr EXCEPT ![t].inbox = Append(@, IF ok THEN SubscribeEvent ELSE ErrorEvent),
                        ![t].sub_replied = @ \cup {a},
                        ![t].sub_acked = IF ok THEN @ \cup {a} ELSE @]
    /\ UNCHANGED <<config, event_tx, event_rx, store, write_txs, pending_requests,
                   REQUEST_ID_COUNTER, nextT, answered, task, closed>>

\* the exchange answers a command frame of this transport
ReadApiResponse(t, id, reply) ==
    /\ tr[t].reader /\ Len(tr[t].inbox) < MaxInbox
    /\ id \in CommandIds(t) \ answered
    /\ tr' = [tr EXCEPT ![t].inbox = Append(@, ApiResponse(id, reply.code, reply.msg))]
    /\ answered' = answered \cup {id}
    /\ UNCHANGED <<config, event_tx, event_rx, budget, store, write_txs, pending_requests,
                   REQUEST_ID_COUNTER, nextT, task, closed>>

\* connection.rs 134-142: a close frame or a read error; Disconnected is
\* sent to msg_rx and the read loop ends
ReadClose(t) ==
    /\ tr[t].reader /\ budget.disconnects > 0
    /\ budget' = [budget EXCEPT !.disconnects = @ - 1]
    /\ tr' = [tr EXCEPT ![t].reader = FALSE, ![t].inbox = Append(@, DisconnectedMsg)]
    /\ UNCHANGED <<config, event_tx, event_rx, store, write_txs, pending_requests,
                   REQUEST_ID_COUNTER, nextT, answered, task, closed>>

\* ---------------------------------------------- write loop (connection.rs 110-121)
\* a sender of the write channel of t is alive: the handle in write_txs, the
\* heartbeat's clone, or the local of a running connect_inner
HasSender(t) ==
    \/ write_txs[tr[t].conn] = t
    \/ tr[t].hb
    \/ \E i \in Tasks : task[i].newT = t

\* connection.rs 111-120: the write loop runs until a socket write fails or
\* write_rx.recv() returns None, which it does once every sender is dropped
WriterRunning(t) == tr[t].conn # "none" /\ ~tr[t].write_failed /\ HasSender(t)

\* a frame or ping of the write channel of t that the exchange has not
\* answered, so that it may still be unwritten
MayBeUnwritten(t) ==
    \/ tr[t].pings > 0
    \/ \E n \in 1..Len(tr[t].wq) :
          LET f == tr[t].wq[n]
          IN ~(f.op = "login" /\ tr[t].login_replied) /\ f.id \notin answered

\* connection.rs 112-118: writing a queued frame to the socket fails; the
\* loop ends without any signal to the processing loop
WriteError(t) ==
    /\ WriterRunning(t) /\ MayBeUnwritten(t)
    /\ budget.write_errors > 0
    /\ budget' = [budget EXCEPT !.write_errors = @ - 1]
    /\ tr' = [tr EXCEPT ![t].write_failed = TRUE]
    /\ UNCHANGED <<config, event_tx, event_rx, store, write_txs, pending_requests,
                   REQUEST_ID_COUNTER, nextT, answered, task, closed>>

\* ------------------------------------------------------ heartbeat (heartbeat.rs)
\* a heartbeat that goes on ticking after it was stopped (used to validate
\* C37)
HbTick_unstoppable(t) ==
    /\ tr[t].conn # "none" /\ budget.pings > 0
    /\ budget' = [budget EXCEPT !.pings = @ - 1]
    /\ tr' = IF SendOk(t)
             THEN [tr EXCEPT ![t].pings = @ + 1]
             ELSE [tr EXCEPT ![t].hb = FALSE]
    /\ UNCHANGED <<config, event_tx, event_rx, store, write_txs, pending_requests,
                   REQUEST_ID_COUNTER, nextT, answered, task, closed>>

\* heartbeat.rs 19-24: a tick; the loop ends when the send fails
HbTick(t) ==
    /\ tr[t].hb /\ budget.pings > 0
    /\ budget' = [budget EXCEPT !.pings = @ - 1]
    /\ tr' = IF SendOk(t)
             THEN [tr EXCEPT ![t].pings = @ + 1]
             ELSE [tr EXCEPT ![t].hb = FALSE]
    /\ UNCHANGED <<config, event_tx, event_rx, store, write_txs, pending_requests,
                   REQUEST_ID_COUNTER, nextT, answered, task, closed>>

\* heartbeat.rs 25-28: the heartbeat receives its stop signal and ends
HbStop(t) ==
    /\ tr[t].hb /\ tr[t].hb_stop
    /\ tr' = [tr EXCEPT ![t].hb = FALSE]
    /\ UNCHANGED <<config, event_tx, event_rx, budget, store, write_txs, pending_requests,
                   REQUEST_ID_COUNTER, nextT, answered, task, closed>>

\* ------------------------------------------------------------------ listener
\* broadcast::Receiver::recv of the application's listener: it returns the
\* message at its position, or, when the channel no longer retains that
\* one, RecvError::Lagged, and its position moves to the oldest retained
ListenerRecv ==
    /\ config.listener /\ event_rx < event_tx.sent
    /\ event_rx' = IF event_rx < OldestRetained(event_tx)
                   THEN OldestRetained(event_tx)
                   ELSE event_rx + 1
    /\ UNCHANGED <<config, event_tx, budget, store, write_txs, pending_requests,
                   REQUEST_ID_COUNTER, nextT, tr, answered, task, closed>>

\* ----------------------------------------------------------------- behaviours
Call(k) ==
    \/ \E A \in SubscribeInputs : CallSubscribe(k, A)
    \/ \E A \in SubscribeInputs : CallUnsubscribe(k, A)
    \/ \E o \in CommandOps : CallCommand(k, o)
    \/ CallCloseAll(k)

\* one step of a caller or reconnect task
TaskStep(i) ==
    \/ Ensure(i) \/ CiConnecting(i) \/ CiOpenOk(i) \/ CiOpenFail(i)
    \/ CiSetWtx(i) \/ CiConnected(i) \/ CiLogin(i)
    \/ SubCheck(i) \/ SubPend(i) \/ SubSend(i) \/ SubConfirm(i)
    \/ UnsubSend(i) \/ UnsubStore(i)
    \/ CmdRegister(i) \/ CmdSend(i) \/ CmdReturn(i) \/ CmdTimeout(i)
    \/ CloseWtx(i) \/ CloseStore(i)
    \/ ReconnectHandOver(i)

\* one step of the processing task of a transport
ProcStep(t) ==
    \/ ProcLoginOk(t) \/ ProcLoginFlush(t) \/ ProcLoginFail(t)
    \/ ProcEvent(t)
    \/ ProcApiResponse(t)
    \/ ProcDisconnected(t) \/ ProcRejectAll(t) \/ ProcRemoveWtx(t)

\* what the exchange and the network do to a transport
Network(t) ==
    \/ \E code \in Codes : ReadLoginAck(t, code)
    \/ \E id \in RequestIds, reply \in Replies : ReadApiResponse(t, id, reply)
    \/ \E a \in Topics, ok \in BOOLEAN : ReadSubscribeEvent(t, a, ok)
    \/ ReadClose(t)
    \/ WriteError(t)

Next ==
    \/ \E k \in Callers : Call(k)
    \/ \E i \in Tasks : TaskStep(i)
    \/ \E t \in Transports : ProcStep(t)
    \/ \E t \in Transports : HbTick(t)
    \/ \E t \in Transports : HbStop(t)
    \/ \E t \in Transports : Network(t)
    \/ ListenerRecv

Spec == Init /\ [][Next]_vars

\* The routing alone: the callers enter subscribe with one-topic argument
\* lists over RouteChannels; the entry partitions the arguments with
\* route_subscription and chooses the first connection to serve.
RouteInit == InitWith(RouteScenario)
RouteCall == \E k \in Callers, A \in RouteInputs : CallSubscribe(k, A)
RouteSpec == RouteInit /\ [][RouteCall]_vars

\* The decoder: the client after subscribe([tickers]) has returned on a
\* fresh client with a listener (the Public connection is open, its
\* subscribe frame sent, Connected published); the read loop of the
\* transport is given text frames of every shape and the processing loop
\* handles what the decoder makes of them.
ParseInit ==
    /\ config = [auto_reconnect |-> FALSE, credentials |-> TRUE, listener |-> TRUE]
    /\ budget = Workload(0, 0, 0, 0, MaxDisconnects, 0, 0, 0, MaxSubEvents)
    /\ event_tx = [sent |-> 1, tail |-> <<Published(ConnectedMsg, Public)>>]
    /\ event_rx = 0
    /\ store = [c \in WsConnectionType |->
                  IF c = Public
                  THEN [NewConnectionStore EXCEPT !.state = Connected,
                                                  !.subscribed_topics = {TopicTickers}]
                  ELSE NoRecord]
    /\ write_txs = [c \in WsConnectionType |-> IF c = Public THEN 1 ELSE 0]
    /\ pending_requests = {}
    /\ REQUEST_ID_COUNTER = 1
    /\ nextT = 1
    /\ tr = [t \in Transports |->
               IF t = 1
               THEN [NoTransport EXCEPT !.conn = Public, !.reader = TRUE, !.hb = TRUE,
                                        !.procpc = "loop",
                                        !.wq = <<SubscribeFrame({TopicTickers})>>]
               ELSE NoTransport]
    /\ answered = {}
    /\ task = [i \in Tasks |-> IF i = 1 THEN [IdleTask EXCEPT !.result = "Ok"] ELSE IdleTask]
    /\ closed = FALSE
ParseNext ==
    \E t \in Transports :
        \/ \E text \in TextFrames : ReadText(t, text)
        \/ ProcEvent(t)
        \/ ProcApiResponse(t)
ParseSpec == ParseInit /\ [][ParseNext]_vars

\* Fair scheduling: the runtime keeps running every task that can take a
\* step (callers inside a call, reconnect tasks, processing tasks), timers
\* fire, and the exchange answers a login frame it has received.  Nothing
\* obliges a caller to start a call, the exchange to answer a command, or
\* the network to fail.
FairSpec ==
    /\ Init /\ [][Next]_vars
    /\ \A i \in Tasks : WF_vars(TaskStep(i))
    /\ \A t \in Transports : WF_vars(ProcStep(t))
    /\ \A t \in Transports : WF_vars(\E code \in Codes : ReadLoginAck(t, code))
    /\ \A t \in Transports : WF_vars(HbStop(t))

\* ==================================================================== claims
\* the old transport whose processing loop spawned reconnect task i
OldTransport(i) == i - NumCallers

\* a send_api_request call that sent its frame and waits on its receiver
Waiting(i) == task[i].pc = "cmd_wait" /\ task[i].rx = "waiting"

\* frames are queued on transport u only, and exactly frame f
OnlyFrame(u, f) ==
    /\ tr'[u].wq = Append(tr[u].wq, f)
    /\ \A v \in Transports \ {u} : tr'[v].wq = tr[v].wq

NoFrame == \A v \in Transports : tr'[v].wq = tr[v].wq

\* ------------------------------------------------------------------------ C1
\* the transport registered for c has not had a successful login ack handled
UnackedCurrent(c) == write_txs[c] # 0 /\ ~tr[write_txs[c]].acked

\* C1: a subscribe call for a Private or Business topic, made while the
\* transport registered for that connection has had no login ack handled,
\* queues no subscribe frame (its send step adds nothing to a write queue)
\* and, where it returns through the pending branch, leaves its topics in
\* pending_topics.
C1_SubscribeBeforeLoginIsDeferred ==
    [][\A k \in Callers :
          (task[k].op = "subscribe" /\ task[k].conn \in {Private, Business}
             /\ UnackedCurrent(task[k].conn)) =>
                /\ SubSend(k) => NoFrame
                /\ SubPend(k) => TopicsOf(k) \subseteq store'[task[k].conn].pending_topics]_vars

\* ------------------------------------------------------------------------ C2
\* C2: handling a login ack with code "0" sets the state to Authenticated,
\* empties pending_topics, puts every topic that was pending into
\* subscribed_topics and queues exactly one subscribe frame with exactly
\* those topics on a transport of that connection (no frame when nothing was
\* pending).
C2_LoginAckFlushesPending ==
    [][\A t \in Transports :
          LET c == tr[t].conn
          IN /\ ProcLoginOk(t) =>
                   /\ store'[c].state = Authenticated
                   /\ store'[c].pending_topics = {}
                   /\ store[c].pending_topics = {} => NoFrame
             /\ ProcLoginFlush(t) =>
                   /\ tr[t].flush \subseteq store'[c].subscribed_topics
                   /\ \E u \in Transports :
                         tr[u].conn = c /\ OnlyFrame(u, SubscribeFrame(tr[t].flush))]_vars

\* ------------------------------------------------------------------------ C3
\* C3: when the disconnect handling rejects the registry, the registry is
\* empty afterwards and the receiver of every call that waits for a response
\* is closed; a call whose receiver is closed cannot time out and returns
\* the connection-lost failure ("Cancelled").
C3_DisconnectCancelsWaitingCommands ==
    [][/\ \A t \in Transports :
             ProcRejectAll(t) =>
                /\ pending_requests' = {}
                /\ \A i \in Callers : Waiting(i) => task'[i].rx = "closed"
       /\ \A i \in Callers :
             (task[i].pc = "cmd_wait" /\ task[i].rx = "closed") =>
                /\ ~CmdTimeout(i)
                /\ CmdReturn(i) => task'[i].result = "Cancelled"
                /\ task'[i].pc = "cmd_wait" => task'[i].rx = "closed"]_vars

\* a call has returned the connection-lost failure after a disconnect was handled
C3_Witness ==
    /\ \E i \in Callers : task[i].result = "Cancelled"
    /\ \E t \in Transports : tr[t].procpc \in {"disc_remove", "done"}
    /\ pending_requests = {}

\* ------------------------------------------------------------------------ C4
\* C4: the disconnect handling of one connection leaves the calls that wait
\* for a response on another connection waiting, with their registry entry
\* in place.
C4_DisconnectSparesOtherConnections ==
    [][\A t \in Transports :
          ProcRejectAll(t) =>
             \A i \in Callers :
                (Waiting(i) /\ task[i].conn # tr[t].conn) =>
                   /\ task'[i].rx = "waiting"
                   /\ task[i].reqId \in pending_requests']_vars

\* ------------------------------------------------------------------------ C5
\* C5: under fair scheduling every send_api_request call that was started
\* eventually returns.
C5_CommandEventuallyReturns ==
    \A k \in Callers :
        [](task[k].op = "command" => <>(task[k].op # "command"))

\* ------------------------------------------------------------------------ C6
\* the whole task group of transport t runs: read loop, write loop,
\* heartbeat and processing task
LiveTransport(t) ==
    /\ tr[t].reader /\ WriterRunning(t) /\ tr[t].hb
    /\ tr[t].procpc \in {"loop", "login_flush"}

\* C6: at every moment at most one transport of a connection type is live.
C6_OneLiveTransportPerConnection ==
    \A c \in WsConnectionType :
        Cardinality({t \in Transports : tr[t].conn = c /\ LiveTransport(t)}) <= 1

\* ------------------------------------------------------------------------ C7
\* C7: on the Private and Business connections the disconnect handling
\* leaves the topic sets as they are, and the hand-over of the reconnect
\* task, which is the step before its connect, empties subscribed_topics and
\* leaves every topic that was in subscribed_topics or pending_topics in
\* pending_topics; the reconnect task does nothing before the hand-over.
C7_PrivateTopicsHandedOver ==
    [][/\ \A t \in Transports :
             (tr[t].conn \in {Private, Business}
                /\ (ProcDisconnected(t) \/ ProcRejectAll(t) \/ ProcRemoveWtx(t))) =>
                   /\ store'[tr[t].conn].subscribed_topics = store[tr[t].conn].subscribed_topics
                   /\ store'[tr[t].conn].pending_topics = store[tr[t].conn].pending_topics
       /\ \A i \in ReconnectTasks :
             (task[i].conn \in {Private, Business} /\ ReconnectHandOver(i)) =>
                LET c == task[i].conn
                IN /\ store'[c].subscribed_topics = {}
                   /\ store'[c].pending_topics =
                         store[c].pending_topics \cup store[c].subscribed_topics
                   /\ task'[i].pc = "ci_connecting"
       /\ \A i \in ReconnectTasks :
             (task[i].conn \in {Private, Business} /\ task[i].pc = "r_sleep"
                /\ TaskStep(i)) => ReconnectHandOver(i)]_vars

\* the reconnect task of an authenticated Private transport has handed the
\* confirmed topic over and is about to connect
C7_Witness ==
    \E i \in ReconnectTasks :
        /\ task[i].op = "reconnect" /\ task[i].conn = Private
        /\ task[i].pc = "ci_connecting"
        /\ tr[OldTransport(i)].acked
        /\ store[Private].subscribed_topics = {}
        /\ TopicOrders \in store[Private].pending_topics

Ready(c) ==
    /\ c \in WsConnectionType
    /\ store[c].exists
    /\ IF c = Public \/ ~config.credentials
       THEN store[c].state = Connected
       ELSE store[c].state = Authenticated

\* C9: with auto-reconnect, once the disconnect of a transport has been
\* handled, its connection eventually becomes ready again.
C9_ReconnectEventuallyReady ==
    \A t \in Transports :
        []((config.auto_reconnect /\ tr[t].procpc = "done") => <>Ready(tr[t].conn))

\* ----------------------------------------------------------------------- C10
\* C10: once close_all has returned, and as long as no caller makes a call,
\* no transport is opened and no connection state leaves Disconnected.
C10_CloseAllIsFinal ==
    [][(closed /\ closed' /\ \A k \in Callers : task[k].pc = "idle") =>
          /\ nextT' = nextT
          /\ \A c \in WsConnectionType :
                store[c].state = Disconnected => store'[c].state = Disconnected]_vars

\* ----------------------------------------------------------------------- C11
\* some task of the task group of transport t still runs
TransportRuns(t) ==
    \/ tr[t].reader \/ WriterRunning(t) \/ tr[t].hb
    \/ tr[t].procpc \in {"loop", "login_flush", "disc_reject", "disc_remove"}

\* C11: once close_all has returned, every transport of which a task still
\* runs eventually has none of its tasks running.
C11_CloseAllStopsTransports ==
    \A t \in Transports : []((closed /\ TransportRuns(t)) => <>(~TransportRuns(t)))

\* ----------------------------------------------------------------------- C12
\* the number a decimal id stands for
IdValue(id) == CHOOSE n \in 0..(MaxCommands + 1) : to_string(n) = id

\* C12: the ids of the calls in progress are pairwise distinct; only an
\* allocation changes the counter; an allocation gives an id that differs
\* from every id allocated before and stands for a greater number than each
\* of them.
C12_RequestIdsDistinctIncreasing ==
    /\ [](\A i, j \in Callers :
             (i # j /\ task[i].reqId # NoId /\ task[j].reqId # NoId) =>
                task[i].reqId # task[j].reqId)
    /\ [][/\ REQUEST_ID_COUNTER' # REQUEST_ID_COUNTER => \E i \in Callers : CmdRegister(i)
          /\ \A i \in Callers :
                CmdRegister(i) =>
                   /\ REQUEST_ID_COUNTER' = REQUEST_ID_COUNTER + 1
                   /\ \A n \in 1..(REQUEST_ID_COUNTER - 1) :
                         /\ task'[i].reqId # to_string(n)
                         /\ IdValue(task'[i].reqId) > n
                   /\ \A j \in Callers \ {i} : task'[i].reqId # task[j].reqId]_vars

\* two calls wait at the same time, each with its own id
C12_Witness ==
    /\ Waiting(1) /\ Waiting(2)
    /\ task[1].reqId # task[2].reqId
    /\ {task[1].reqId, task[2].reqId} = {to_string(1), to_string(2)}

\* ----------------------------------------------------------------------- C13
\* no call waits on the receiver of id
NoLiveWaiter(id) == \A i \in Callers : ~(task[i].rx = "waiting" /\ task[i].reqId = id)

\* C13: processing a response whose id has no waiting call changes no call,
\* no other registry entry and no connection record, and the processing
\* loop goes on with the next message.
C13_UnmatchedResponseDiscarded ==
    [][\A t \in Transports :
          (ProcApiResponse(t) /\ NoLiveWaiter(Head(tr[t].inbox).id)) =>
             /\ task' = task
             /\ pending_requests' = pending_requests \ {Head(tr[t].inbox).id}
             /\ store' = store /\ write_txs' = write_txs
             /\ tr'[t].procpc = "loop" /\ tr'[t].inbox = Tail(tr[t].inbox)
             /\ tr'[t].reader = tr[t].reader /\ tr'[t].hb = tr[t].hb]_vars

\* the only command of the behaviour was cancelled by a disconnect, and the
\* response the exchange gave for it has been processed by a loop that runs on
C13_Witness ==
    /\ REQUEST_ID_COUNTER = 2 /\ to_string(1) \in answered
    /\ \A i \in Callers : task[i].pc = "idle"
    /\ \E i \in Callers : task[i].result = "Cancelled"
    /\ \E t \in Transports :
          /\ to_string(1) \in CommandIds(t)
          /\ tr[t].procpc = "loop" /\ tr[t].inbox = <<>>

\* ----------------------------------------------------------------------- C14
\* C14: a processed response changes only a call that waits with the id of
\* the response, and such a call gets exactly its code and msg; the call
\* then returns the response iff the code is "0", otherwise the API failure,
\* in both cases with the code and msg of the response.
C14_ResponseReachesItsCaller ==
    [][/\ \A t \in Transports :
             ProcApiResponse(t) =>
                LET m == Head(tr[t].inbox)
                IN \A i \in Tasks :
                      /\ task'[i] # task[i] => (task[i].rx = "waiting" /\ task[i].reqId = m.id)
                      /\ (task[i].rx = "waiting" /\ task[i].reqId = m.id) =>
                            /\ task'[i].rx = "ready"
                            /\ task'[i].resp = [code |-> m.code, msg |-> m.msg]
       /\ \A i \in Callers :
             (CmdReturn(i) /\ task[i].rx = "ready") =>
                /\ task'[i].result = "Response" <=> task[i].resp.code = "0"
                /\ task'[i].result = "ApiErr" <=> task[i].resp.code # "0"
                /\ task'[i].resp = task[i].resp]_vars

\* a call has returned the API failure with the code and msg of its response
C14_Witness ==
    \E i \in Callers :
        /\ task[i].pc = "idle" /\ task[i].result = "ApiErr"
        /\ task[i].resp = [code |-> "1", msg |-> "Order failed"]

\* ----------------------------------------------------------------------- C15
\* C15: processing a login ack with a code other than "0" changes no
\* connection record (state, authenticated flag, topic sets), no write
\* channel and no call, queues no frame and leaves the tasks of the
\* transport running; a subscribe call that finds the record
\* unauthenticated queues its topics and succeeds.
C15_LoginFailureChangesNothing ==
    [][/\ \A t \in Transports :
             ProcLoginFail(t) =>
                /\ store' = store /\ write_txs' = write_txs /\ task' = task
                /\ NoFrame
                /\ tr'[t] = [tr[t] EXCEPT !.inbox = Tail(tr[t].inbox)]
                /\ \A u \in Transports \ {t} : tr'[u] = tr[u]
       /\ \A k \in Callers :
             SubPend(k) =>
                /\ TopicsOf(k) \subseteq store'[task[k].conn].pending_topics
                /\ task'[k].result = "Ok" \/ task'[k].pc = "ensure"]_vars

\* the login of a transport was rejected and the ack processed: the record
\* is Connected and unauthenticated, the transport runs, and a topic waits
C15_Witness ==
    \E t \in Transports :
        /\ tr[t].conn = Private /\ tr[t].login_replied /\ ~tr[t].acked
        /\ tr[t].inbox = <<>> /\ tr[t].procpc = "loop" /\ tr[t].reader /\ tr[t].hb
        /\ store[Private].state = Connected /\ ~store[Private].is_authenticated
        /\ TopicOrders \in store[Private].pending_topics
        /\ \E k \in Callers : task[k].pc = "idle" /\ task[k].result = "Ok"

\* ----------------------------------------------------------------------- C16
\* C16: when opening the socket fails inside a call, the call returns the
\* error and the state of the connection is Disconnected.
C16_ConnectFailureLeavesDisconnected ==
    [][\A k \in Callers :
          CiOpenFail(k) =>
             /\ task'[k].pc = "idle" /\ task'[k].result = "ConnectErr"
             /\ store'[task[k].conn].state = Disconnected]_vars

\* ----------------------------------------------------------------------- C17
\* the step with which connect_inner of task i returns Ok
ConnectSucceeds(i) ==
    \/ CiConnected(i) /\ task'[i].pc # "ci_login"
    \/ CiLogin(i) /\ task'[i].result # "SendErr"

\* the newest message of the channel after the step is item, sent by the step
JustPublished(item) ==
    /\ event_tx'.sent = event_tx.sent + 1
    /\ event_tx'.tail # <<>> /\ event_tx'.tail[Len(event_tx'.tail)] = item

\* C17: with a listener, the step that completes a connect publishes
\* Connected for the connection, and the step that completes the handling
\* of a disconnect publishes Disconnected for the connection.
C17_NotificationsPublished ==
    [][config.listener =>
          /\ \A i \in Tasks :
                ConnectSucceeds(i) => JustPublished(Published(ConnectedMsg, task[i].conn))
          /\ \A t \in Transports :
                ProcRemoveWtx(t) => JustPublished(Published(DisconnectedMsg, tr[t].conn))]_vars

\* ----------------------------------------------------------------------- C18
\* C18: whatever the listener has or has not received, a processing task
\* with a message can take its step as soon as the lock it needs is free;
\* a send into the channel leaves the listener alone, keeps at most
\* EventCapacity messages and drops the oldest one when the channel is
\* full; a receive moves the listener forward, by one message or, when it
\* lags, to the oldest message retained.
C18_FanOutNeverBlocks ==
    /\ [](\A t \in Transports :
             /\ (HasMsg(t) /\ CanLockStore) => ENABLED ProcStep(t)
             /\ (tr[t].procpc = "login_flush" /\ CanReadWt) => ENABLED ProcStep(t))
    /\ [][/\ event_tx' # event_tx =>
                /\ event_rx' = event_rx
                /\ event_tx'.sent = event_tx.sent + 1
                /\ Len(event_tx'.tail) <= EventCapacity
                /\ \E item \in {event_tx'.tail[Len(event_tx'.tail)]} :
                      event_tx'.tail =
                         IF Len(event_tx.tail) < EventCapacity
                         THEN Append(event_tx.tail, item)
                         ELSE Append(Tail(event_tx.tail), item)
          /\ event_rx' # event_rx =>
                /\ ListenerRecv /\ event_rx' > event_rx /\ event_rx' <= event_tx.sent
                /\ event_rx' = IF event_rx < OldestRetained(event_tx)
                               THEN OldestRetained(event_tx) ELSE event_rx + 1]_vars

\* the listener lags: messages it never received are gone from the channel,
\* and the processing tasks have gone on publishing
C18_Witness ==
    /\ config.listener /\ event_rx < OldestRetained(event_tx)
    /\ Len(event_tx.tail) = EventCapacity

\* ----------------------------------------------------------------------- C19
\* the connection is ready as far as its record says
ReadyFor(c) ==
    /\ store[c].exists
    /\ store[c].state = IF c = Public THEN Connected ELSE Authenticated

\* C19: the send step of a subscribe call on a ready connection, unless it
\* fails with the send error of a closed write channel, queues exactly one
\* subscribe frame with exactly the topics of the call for that connection
\* on a transport of that connection, and its last step leaves the topics
\* in subscribed_topics.
C19_SubscribeOnReadyConnection ==
    [][\A k \in Callers :
          (task[k].op = "subscribe" /\ task[k].pc \in {"sub_send", "sub_confirm"}
             /\ ReadyFor(task[k].conn)) =>
                /\ SubSend(k) =>
                      \/ task'[k].pc = "idle" /\ task'[k].result = "SendErr"
                      \/ /\ task'[k].pc = "sub_confirm"
                         /\ \E u \in Transports :
                               /\ tr[u].conn = task[k].conn
                               /\ OnlyFrame(u, SubscribeFrame(TopicsOf(k)))
                /\ SubConfirm(k) =>
                      TopicsOf(k) \subseteq store'[task[k].conn].subscribed_topics]_vars

\* ----------------------------------------------------------------------- C20
\* C20: the send step of an unsubscribe call queues the unsubscribe frame
\* for its topics on a transport of their connection, and its store step
\* leaves none of the topics in subscribed_topics.
C20_UnsubscribeAlwaysSends ==
    [][\A k \in Callers :
          /\ UnsubSend(k) =>
                /\ task'[k].pc = "unsub_store"
                /\ \E u \in Transports :
                      /\ tr[u].conn = task[k].conn
                      /\ OnlyFrame(u, UnsubscribeFrame(TopicsOf(k)))
          /\ UnsubStore(k) =>
                TopicsOf(k) \cap store'[task[k].conn].subscribed_topics = {}]_vars

\* ----------------------------------------------------------------------- C21
\* the connection the routing rule gives for a channel name
RouteOf(ch) ==
    IF ch \in PrivateChannels THEN Private
    ELSE IF \/ starts_with(ch, CH_candle)
            \/ starts_with(ch, CH_mark_price_candle)
            \/ starts_with(ch, CH_index_candle)
            \/ ch = <<"d","e","p","o","s","i","t","-","i","n","f","o">>
            \/ ch = <<"w","i","t","h","d","r","a","w","a","l","-","i","n","f","o">>
         THEN Business
    ELSE Public

\* C21: the connection a subscribe call chooses for its topic is one of the
\* three connection types for every channel name; it is Private for the
\* fixed private names, Business for names with one of the three candle
\* prefixes and for deposit-info and withdrawal-info, and Public for every
\* other name; it is the same for every value of the filter field.
C21_RouteByChannelName ==
    \A k \in Callers :
        task[k].op = "subscribe" =>
           \A a \in task[k].args :
              /\ task[k].conn \in WsConnectionType
              /\ task[k].conn = RouteOf(a.channel)
              /\ route_subscription(a) = task[k].conn
              /\ \A f \in RouteFilters :
                    route_subscription(with_inst_id(a.channel, f)) = task[k].conn

\* one call was routed to Business by a listed name, the other to Public by
\* a name the code does not know (a private name with a character added)
C21_Witness ==
    /\ task[1].op = "subscribe" /\ task[2].op = "subscribe"
    /\ task[1].args = {with_inst_id(<<"d","e","p","o","s","i","t","-","i","n","f","o">>, "")}
    /\ task[1].conn = Business
    /\ task[2].args = {with_inst_id(<<"o","r","d","e","r","s","2">>, "BTC-USDT")}
    /\ task[2].conn = Public

\* ----------------------------------------------------------------------- C22
\* C22: once the write loop of a transport has ended on a socket write
\* error, the disconnect of that transport is eventually handled: its
\* processing task runs through the Disconnected arm and ends.
C22_WriteFailureTriggersDisconnect ==
    \A t \in Transports : [](tr[t].write_failed => <>(tr[t].procpc = "done"))

\* ----------------------------------------------------------------------- C23
\* C23: the three steps with which a processing task handles a disconnect
\* signal set the state of its connection to Disconnected and clear the
\* authenticated flag, empty the registry, and remove the write channel
\* handle of the connection; the last step starts the reconnect task of the
\* transport iff auto_reconnect is set, starts no other task, and ends the
\* loop, after which the task takes no step.  Without auto_reconnect, once
\* the disconnect is handled the state leaves Disconnected only by a step
\* of a caller's call on that connection.
C23_DisconnectHandling ==
    /\ [](\A t \in Transports : tr[t].procpc = "done" => ~ENABLED ProcStep(t))
    /\ [][\A t \in Transports :
             LET c == tr[t].conn
             IN /\ ProcDisconnected(t) =>
                      /\ store'[c].state = Disconnected /\ ~store'[c].is_authenticated
                      /\ tr'[t].procpc = "disc_reject"
                /\ ProcRejectAll(t) =>
                      pending_requests' = {} /\ tr'[t].procpc = "disc_remove"
                /\ ProcRemoveWtx(t) =>
                      /\ write_txs'[c] = 0 /\ tr'[t].procpc = "done"
                      /\ config.auto_reconnect =>
                            /\ task'[ReconnectTask(t)].pc = "r_sleep"
                            /\ task'[ReconnectTask(t)].conn = c
                      /\ \A i \in Tasks :
                            i # ReconnectTask(t) \/ ~config.auto_reconnect =>
                               task'[i] = task[i]
                /\ (/\ ~config.auto_reconnect /\ tr[t].procpc = "done"
                    /\ store[c].state = Disconnected /\ store'[c].state # Disconnected) =>
                      \E k \in Callers : task[k].conn = c /\ TaskStep(k)]_vars

\* ----------------------------------------------------------------------- C24
\* C24: no state has a processing task that holds the store lock and waits
\* for the write-channel lock while a close_all holds the write-channel
\* lock and waits for the store lock.
C24_NoLockCycle ==
    ~(\E t \in Transports, i \in Tasks :
         tr[t].procpc = "login_flush" /\ task[i].pc = "close_store")

\* ----------------------------------------------------------------------- C25
\* transport t is of an older generation than the one registered for its
\* connection
Stale(t) ==
    /\ tr[t].conn \in WsConnectionType
    /\ write_txs[tr[t].conn] # 0 /\ write_txs[tr[t].conn] > t

\* C25: a step of the disconnect handling of a transport that is older than
\* the transport registered for its connection changes neither the record
\* of the connection nor the registered handle nor the registry, and closes
\* the receiver of no call.
C25_StaleTransportIsHarmless ==
    [][\A t \in Transports :
          (Stale(t) /\ (ProcDisconnected(t) \/ ProcRejectAll(t) \/ ProcRemoveWtx(t))) =>
             /\ store'[tr[t].conn] = store[tr[t].conn]
             /\ write_txs' = write_txs
             /\ pending_requests' = pending_requests
             /\ \A i \in Callers : task'[i].rx = task[i].rx]_vars

\* ----------------------------------------------------------------------- C26
\* the changes of state the life cycle allows for connection c
Transitions(c) ==
    { <<Disconnected, Connecting>>, <<Connecting, Connected>>,
      <<Disconnected, Reconnecting>>, <<Reconnecting, Connecting>> }
    \cup (IF c = Public THEN {} ELSE { <<Connected, Authenticated>> })
    \cup { <<s, Disconnected>> : s \in ConnectionState }

\* C26: every step that changes the state of a connection record makes one
\* of the allowed transitions.
C26_StateTransitions ==
    [][\A c \in WsConnectionType :
          store'[c].state # store[c].state =>
             <<store[c].state, store'[c].state>> \in Transitions(c)]_vars

\* ----------------------------------------------------------------------- C27
\* C27: the authenticated flag of a record is set exactly when its state is
\* Authenticated.
C27_FlagMatchesState ==
    \A c \in WsConnectionType :
        store[c].is_authenticated <=> store[c].state = Authenticated

\* ----------------------------------------------------------------------- C28
\* a subscribe call on connection c is in progress
Subscribing(c) ==
    \E k \in Callers : task[k].op = "subscribe" /\ task[k].pc # "idle" /\ task[k].conn = c

\* C28: when a connection is Authenticated and no subscribe call on it is
\* in progress, its pending set is empty.
C28_NoStrandedTopic ==
    \A c \in WsConnectionType :
        (store[c].state = Authenticated /\ ~Subscribing(c)) =>
           store[c].pending_topics = {}

\* ----------------------------------------------------------------------- C29
\* C29: the queue between the read loop and the processing loop of a
\* transport changes only by a message added at its end or by the
\* processing task taking the message at its head; the task ends with
\* nothing but the disconnect signal in the queue; and what a step of the
\* processing task sends into the channel is the message at the head of
\* its queue, which that step takes.
C29_FramesHandledInOrder ==
    [][\A t \in Transports :
          /\ tr'[t].inbox # tr[t].inbox =>
                \/ /\ Len(tr'[t].inbox) = Len(tr[t].inbox) + 1
                   /\ SubSeq(tr'[t].inbox, 1, Len(tr[t].inbox)) = tr[t].inbox
                \/ ProcStep(t) /\ tr[t].inbox # <<>> /\ tr'[t].inbox = Tail(tr[t].inbox)
          /\ ProcRemoveWtx(t) => tr[t].inbox = <<DisconnectedMsg>>
          /\ (ProcStep(t) /\ event_tx' # event_tx) =>
                /\ tr'[t].inbox = Tail(tr[t].inbox)
                /\ event_tx'.sent = event_tx.sent + 1
                /\ event_tx'.tail[Len(event_tx'.tail)] =
                      Published(Head(tr[t].inbox), tr[t].conn)]_vars

\* the listener's channel holds the login ack and the answer to the
\* subscribe frame that followed it, in the order the exchange sent them
C29_Witness ==
    /\ config.listener
    /\ event_tx.tail = << Published(LoginAck("0"), Private),
                          Published(SubscribeEvent, Private) >>

\* ----------------------------------------------------------------------- C30
\* C30: every topic in the confirmed set of a connection has been
\* acknowledged by the exchange on a transport of that connection.
C30_ConfirmedMeansAcknowledged ==
    \A c \in WsConnectionType :
        \A a \in store[c].subscribed_topics :
            \E t \in Transports : tr[t].conn = c /\ a \in tr[t].sub_acked

\* ----------------------------------------------------------------------- C31
\* no call or reconnect task works on connection c, no close_all is in
\* progress, and no processing task of c is inside the login arm
Quiet(c) ==
    /\ \A i \in Tasks : task[i].pc = "idle" \/ (task[i].conn # c /\ task[i].op # "close_all")
    /\ \A t \in Transports : tr[t].conn = c => tr[t].procpc # "login_flush"

\* C31: when a connection is ready and nothing is in progress on it, a
\* write channel is registered for it and every topic of its confirmed set
\* has been sent in a subscribe frame on the registered transport.
C31_ConfirmedTopicsWereSent ==
    \A c \in WsConnectionType :
        (ReadyFor(c) /\ Quiet(c)) =>
           \A a \in store[c].subscribed_topics :
              write_txs[c] # 0 /\ a \in SubscribedOn(write_txs[c])

\* ----------------------------------------------------------------------- C32
\* C32: when the state of a connection is Connected or Authenticated and no
\* close_all is in progress, a write channel is registered for it, and it
\* is the channel of a transport of that connection whose processing loop
\* has not ended.
C32_ReadyHasWriteChannel ==
    \A c \in WsConnectionType :
        (/\ store[c].state \in {Connected, Authenticated}
         /\ \A k \in Callers : task[k].pc = "idle" \/ task[k].op # "close_all") =>
           /\ write_txs[c] # 0
           /\ tr[write_txs[c]].conn = c
           /\ tr[write_txs[c]].procpc # "done"

\* ----------------------------------------------------------------------- C33
\* C33: a step of send_api_request that queues a command frame queues it on
\* a transport whose login has been acknowledged and handled, while the
\* state of the connection is Authenticated, and behind the login frame of
\* that transport.
C33_CommandsOnlyWhenAuthenticated ==
    [][\A k \in Callers, u \in Transports :
          (CmdSend(k) /\ tr'[u].wq # tr[u].wq) =>
             /\ store[task[k].conn].state = Authenticated
             /\ tr[u].acked
             /\ HasFrame(u, "login")]_vars

\* ----------------------------------------------------------------------- C34
\* C34: when an unsubscribe call returns, none of its topics is in the
\* confirmed set or in the pending set of its connection.
C34_UnsubscribeForgetsTopic ==
    [][\A k \in Callers :
          (task[k].op = "unsubscribe" /\ task'[k].pc = "idle" /\ task[k].pc # "idle") =>
             TopicsOf(k) \cap (store'[task[k].conn].subscribed_topics
                                \cup store'[task[k].conn].pending_topics) = {}]_vars

\* ----------------------------------------------------------------------- C35
\* the number of login frames in the write queue q
LoginFramesIn(q) == Cardinality({n \in 1..Len(q) : q[n].op = "login"})
LoginFrames(t) == LoginFramesIn(tr[t].wq)

\* C35: no login frame is sent on a Public transport and the Public record
\* is never Authenticated; when the connect that opened a Private or
\* Business transport returns Ok, that transport has been sent exactly one
\* login frame if credentials are configured and none otherwise, and no
\* transport is ever sent a second one.
C35_LoginFramePerTransport ==
    /\ [](/\ store[Public].state # Authenticated
          /\ \A t \in Transports : tr[t].conn = Public => LoginFrames(t) = 0
          /\ \A t \in Transports : LoginFrames(t) <= 1
          /\ \A t \in Transports : ~config.credentials => LoginFrames(t) = 0)
    /\ [][\A i \in Tasks :
             (ConnectSucceeds(i) /\ task[i].conn # Public /\ config.credentials) =>
                LoginFramesIn(tr'[task[i].newT].wq) = 1]_vars

\* ----------------------------------------------------------------------- C36
\* C36: the step of send_api_request that queues the command frame is taken
\* with a receiver registered for the id of the frame (waiting, or already
\* closed by a reject_all); every command frame of every write queue has an
\* id that was allocated and registered; and when a response is processed,
\* the call that sent the frame with its id has registered before.
C36_RegisteredBeforeSent ==
    /\ [](\A t \in Transports : \A id \in CommandIds(t) :
             /\ IdValue(id) < REQUEST_ID_COUNTER
             /\ \/ id \in pending_requests
                \/ \A k \in Callers : task[k].reqId = id => task[k].rx # "waiting"
             /\ \A k \in Callers : (task[k].pc = "cmd_register") => task[k].reqId # id)
    /\ [][\A k \in Callers :
             CmdSend(k) =>
                /\ task[k].reqId # NoId /\ task[k].rx \in {"waiting", "closed"}
                /\ task[k].rx = "waiting" => task[k].reqId \in pending_requests
                /\ \A u \in Transports :
                      tr'[u].wq # tr[u].wq =>
                         tr'[u].wq = Append(tr[u].wq, CommandFrame(task[k].cmd, task[k].reqId))]_vars

\* a command frame is in a write queue and its waiter is registered
C36_Witness ==
    \E k \in Callers, t \in Transports :
        /\ Waiting(k) /\ task[k].reqId \in CommandIds(t)
        /\ task[k].reqId \in pending_requests

\* ----------------------------------------------------------------------- C37
\* C37: a ping is queued on a transport only by a tick of the running
\* heartbeat of that transport, one ping a tick; a heartbeat that has ended
\* does not start again and queues nothing; and once the processing loop of
\* a transport has ended, its heartbeat eventually ends.
C37_HeartbeatStopsAfterLoop ==
    /\ [][\A t \in Transports :
             /\ tr'[t].pings # tr[t].pings =>
                   /\ HbTick(t) /\ tr[t].hb /\ tr'[t].pings = tr[t].pings + 1
                   /\ tr'[t].wq = tr[t].wq
             /\ (tr[t].conn # "none" /\ ~tr[t].hb) => ~tr'[t].hb
             /\ HbTick(t) => (tr'[t].pings = tr[t].pings + 1 \/ ~tr'[t].hb)]_vars
    /\ \A t \in Transports : (tr[t].procpc = "done") ~> ~tr[t].hb

\* the processing loop of a transport has ended, a ping was queued on it,
\* and its heartbeat has stopped
C37_Witness ==
    \E t \in Transports :
        tr[t].procpc = "done" /\ tr[t].pings > 0 /\ ~tr[t].hb /\ tr[t].hb_stop

\* ----------------------------------------------------------------------- C38
\* the text is a JSON object that has every key of ks
HasKeys(text, ks) ==
    text.raw = "json" /\ text.value = "object" /\ \A k \in ks : text.fields[k] # "absent"

\* C38: a step of the read loop on a text frame has exactly one outcome,
\* chosen in this order: the literal pong gives a pong message; a JSON
\* object with id and op gives a command response, or nothing when it is
\* malformed; otherwise one with arg and data gives a data push, or nothing
\* when malformed; otherwise one with event gives a control event, or
\* nothing when malformed; any other text gives nothing.  The message is
\* appended to the queue of the processing loop; a frame that gives nothing
\* changes only the read position, and the read loop stays ready for the
\* next frame.
C38_DecoderPrecedence ==
    /\ [][\A t \in Transports, text \in TextFrames :
             ReadText(t, text) =>
                LET kind == IF text.raw = "pong" THEN "Pong"
                            ELSE IF HasKeys(text, {"id", "op"})
                                 THEN IF de_WsApiResponse(text.fields)
                                      THEN "ApiResponse" ELSE "None"
                            ELSE IF HasKeys(text, {"arg", "data"})
                                 THEN IF de_WsDataEvent(text.fields) THEN "Data" ELSE "None"
                            ELSE IF HasKeys(text, {"event"})
                                 THEN IF de_WsEvent(text.fields) THEN "Event" ELSE "None"
                            ELSE "None"
                IN /\ tr'[t].rx = Append(tr[t].rx, kind)
                   /\ IF kind = "None"
                      THEN tr' = [tr EXCEPT ![t].rx = Append(@, "None")]
                      ELSE /\ Len(tr'[t].inbox) = Len(tr[t].inbox) + 1
                           /\ SubSeq(tr'[t].inbox, 1, Len(tr[t].inbox)) = tr[t].inbox
                           /\ tr'[t].inbox[Len(tr'[t].inbox)].kind = kind
                   /\ tr'[t].reader /\ tr'[t].procpc = tr[t].procpc
                   /\ store' = store /\ write_txs' = write_txs
                   /\ pending_requests' = pending_requests /\ event_tx' = event_tx
                   /\ task' = task]_vars
    /\ [](\A t \in Transports :
             (/\ tr[t].rx # <<>> /\ Len(tr[t].rx) < MaxTexts
              /\ Len(tr[t].inbox) < MaxInbox) => ENABLED ReadText(t, PongText))

\* the first text frame was dropped, the second was a data push, and the
\* processing loop has handled and published it
C38_Witness ==
    \E t \in Transports :
        /\ tr[t].rx = <<"None", "Data">> /\ tr[t].inbox = <<>>
        /\ event_tx.sent = 2
        /\ event_tx.tail[Len(event_tx.tail)] = Published(DataMsg, Public)

\* ----------------------------------------------------------------------- C39
\* C39: a step changes the record of connection c only when it is a step of
\* a call or reconnect task that works on c, a step of the processing loop
\* of a transport of c, or the step of close_all on an existing record; a
\* record comes into existence only by a step of a call or reconnect task
\* that works on its connection, and an existing record is never removed.
C39_OtherRecordsUntouched ==
    [][\A c \in WsConnectionType :
          /\ store'[c] # store[c] =>
                \/ \E i \in Tasks :
                      TaskStep(i) /\ task[i].op # "close_all" /\ task[i].conn = c
                \/ \E k \in Callers : CloseStore(k) /\ store[c].exists
                \/ \E t \in Transports : ProcStep(t) /\ tr[t].conn = c
          /\ (~store[c].exists /\ store'[c].exists) =>
                \E i \in Tasks :
                   TaskStep(i) /\ task[i].op # "close_all" /\ task[i].conn = c
          /\ store[c].exists => store'[c].exists]_vars

\* the Public record holds a confirmed topic, the Private record is
\* Authenticated, and no Business record exists
C39_Witness ==
    /\ store[Public].subscribed_topics # {}
    /\ store[Private].state = Authenticated
    /\ ~store[Business].exists

\* ----------------------------------------------------------------------- C40
\* C40: a subscribe call whose argument has the channel grid-orders-spot or
\* grid-orders-contract is served on the Business connection.
C40_GridOrdersOnBusiness ==
    \A k \in Callers :
        (/\ task[k].op = "subscribe" /\ task[k].args # {}
         /\ \A a \in task[k].args :
               a.channel \in {CH_grid_orders_spot, CH_grid_orders_contract}) =>
           task[k].conn = Business

====
